---- MODULE Spec2Model ----
(***************************************************************************)
(* The music player of portfolio/script.js (initializeMusicPlayer): the    *)
(* closure variables currentTrackIndex, isPlaying and isDragging, the      *)
(* <audio> element it drives, the DOM nodes it writes, and one action per  *)
(* event listener.  Handlers run to completion; the media element's        *)
(* notifications and the settlement of play() promises arrive as separate  *)
(* steps.                                                                  *)
(***************************************************************************)
EXTENDS Integers, Sequences, FiniteSets, TLC

VARIABLES
    currentTrackIndex,  \* let currentTrackIndex (0-based)
    isPlaying,          \* let isPlaying
    isDragging,         \* let isDragging
    audio,              \* the <audio> element: src, paused, volume, currentTime, duration, queued events
    dom,                \* the DOM nodes the player writes
    pending,            \* play() promises not yet settled: with a .catch handler / without
    last                \* the listener that ran last and the requests it made to the element

vars == <<currentTrackIndex, isPlaying, isDragging, audio, dom, pending, last>>

----------------------------------------------------------------------------
(* Bounds of the model *)

\* play() promises that may be unsettled at once
MaxPending == 1
\* notifications the element may have queued and not yet delivered
MaxEvents == 3
\* seconds of playback between two timeupdate notifications
TimeStep == 40
\* the scrub bar's bounding box, in pixels (getBoundingClientRect)
BarLeft == 1
BarWidth == 2

\* pointer positions: left of the bar, inside it, right of it
PointerXs == {BarLeft - 1, BarLeft + 1, BarLeft + BarWidth + 1}
\* durations the element may report once metadata has loaded, in seconds
RealDurations == {65}
\* values a user may try to give the volume slider
SliderInputs == {-10, 0, 20, 45, 50, 110}
\* the slider's value in the page's markup, which is not part of the script:
\* the player's volume mirrors the element's, which starts at 0.7
InitialSliderValues == {70}

----------------------------------------------------------------------------
(* Numbers: JavaScript numbers that are not integers are kept as reduced   *)
(* fractions <<numerator, denominator>>, denominator > 0.                  *)

RECURSIVE GCD(_, _)
GCD(a, b) == IF b = 0 THEN a ELSE GCD(b, a % b)

Abs(x) == IF x < 0 THEN -x ELSE x

Q(n, d) ==
    LET g == GCD(Abs(n), Abs(d))
        s == IF d < 0 THEN -1 ELSE 1
    IN  <<(s * n) \div g, (s * d) \div g>>

QInt(n) == <<n, 1>>
QMul(x, y) == Q(x[1] * y[1], x[2] * y[2])
QDiv(x, y) == Q(x[1] * y[2], x[2] * y[1])
QAdd(x, y) == Q(x[1] * y[2] + y[1] * x[2], x[2] * y[2])
QLess(x, y) == x[1] * y[2] < y[1] * x[2]
QLeq(x, y) == x[1] * y[2] <= y[1] * x[2]
QMax(x, y) == IF QLess(x, y) THEN y ELSE x
QMin(x, y) == IF QLess(y, x) THEN y ELSE x
\* Math.floor of a non-negative fraction
QFloor(x) == x[1] \div x[2]

Min(a, b) == IF a < b THEN a ELSE b
Max(a, b) == IF a > b THEN a ELSE b

----------------------------------------------------------------------------
(* The playlist *)

playlist == <<
    [title |-> "Chill Lofi Beat", artist |-> "Lofi Hip Hop",
     src |-> "https://www.soundjay.com/misc/sounds/bell-ringing-05.wav", duration |-> 180],
    [title |-> "Ambient Focus", artist |-> "Study Music",
     src |-> "https://www.bensound.com/bensound-music/bensound-creativeminds.mp3", duration |-> 148],
    [title |-> "Peaceful Piano", artist |-> "Relaxing Sounds",
     src |-> "https://www.soundjay.com/misc/sounds/bell-ringing-05.wav", duration |-> 200],
    [title |-> "Electronic Vibes", artist |-> "Synthwave",
     src |-> "https://www.bensound.com/bensound-music/bensound-energy.mp3", duration |-> 165],
    [title |-> "Acoustic Dreams", artist |-> "Indie Folk",
     src |-> "https://www.soundjay.com/misc/sounds/bell-ringing-05.wav", duration |-> 190] >>

\* playlist.length
N == Len(playlist)

\* playlist[index], index 0-based as in the script
Track(index) == playlist[index + 1]

----------------------------------------------------------------------------
(* Helper functions of the script *)

\* a value that is not a number: NaN, undefined
NotANumber == <<0, 0>>

\* mutant: the seconds without the padding
PadStart2None(s) == s

\* secs.toString().padStart(2, '0')
PadStart2(s) == IF Len(s) < 2 THEN "0" \o s ELSE s

\* formatTime(seconds), seconds being the non-negative fraction n/d; 0, NaN
\* and undefined are falsy.  Math.floor(seconds / 60) is the integer
\* quotient of n by 60 d; seconds % 60 is (n mod 60 d) / d.
formatTime(seconds) ==
    IF seconds[1] = 0 \/ seconds = NotANumber
    THEN "0:00"
    ELSE LET mins == seconds[1] \div (60 * seconds[2])
             secs == (seconds[1] % (60 * seconds[2])) \div seconds[2]
         IN  ToString(mins) \o ":" \o PadStart2(ToString(secs))

\* mutant: the low icon up to and including one half
updateVolumeIconLowAtHalf(volume) ==
    IF volume[1] = 0 THEN "fas fa-volume-mute"
    ELSE IF QLeq(volume, Q(1, 2)) THEN "fas fa-volume-down"
    ELSE "fas fa-volume-up"

\* updateVolumeIcon(volume): the className given to the icon
updateVolumeIcon(volume) ==
    IF volume[1] = 0 THEN "fas fa-volume-mute"
    ELSE IF QLess(volume, Q(1, 2)) THEN "fas fa-volume-down"
    ELSE "fas fa-volume-up"

\* mutant: updateProgress without the isDragging test
updateProgressWhileDragging(a, d, dragging) ==
    IF a.duration = 0
    THEN d
    ELSE LET percent == QMul(QDiv(a.currentTime, QInt(a.duration)), QInt(100))
         IN  [d EXCEPT !.progressFill = percent,
                       !.progressHandle = percent,
                       !.timeCurrent = formatTime(a.currentTime)]

\* updateProgress(): the DOM after it, given the element a and the DOM d
updateProgress(a, d, dragging) ==
    IF a.duration = 0 \/ dragging
    THEN d
    ELSE LET percent == QMul(QDiv(a.currentTime, QInt(a.duration)), QInt(100))
         IN  [d EXCEPT !.progressFill = percent,
                       !.progressHandle = percent,
                       !.timeCurrent = formatTime(a.currentTime)]

----------------------------------------------------------------------------
(* The <audio> element, as the script uses it *)

\* audio.src = src: the element's load algorithm pauses it without a pause
\* event, forgets position and duration, and drops its queued notifications
AudioLoad(a, src) ==
    [a EXCEPT !.src = src, !.paused = TRUE, !.currentTime = QInt(0),
              !.duration = 0, !.events = <<>>]

\* audio.play(): when the element lets it start and was paused, it leaves
\* the paused state and queues a play notification; playback that had
\* ended starts again from the beginning
AudioPlay(a, allowed) ==
    IF allowed /\ a.paused
    THEN [a EXCEPT !.paused = FALSE, !.events = Append(@, "play"),
                   !.currentTime = IF a.duration # 0 /\ @ = QInt(a.duration)
                                   THEN QInt(0) ELSE @]
    ELSE a

\* audio.pause(): a playing element pauses and queues a pause notification
AudioPause(a) ==
    IF ~a.paused
    THEN [a EXCEPT !.paused = TRUE, !.events = Append(@, "pause")]
    ELSE a

\* audio.currentTime = t: the element keeps the position within [0, duration]
AudioSeek(a, t) ==
    [a EXCEPT !.currentTime = QMax(QInt(0), QMin(QInt(a.duration), t))]

\* volumeRange.value = v: the slider keeps its value within [0, 100]
RangeValue(v) == Max(0, Min(100, v))

\* a play() call may be made: the model keeps at most MaxPending promises unsettled
Room == pending.caught + pending.bare < MaxPending

\* the element a has queued no more than MaxEvents notifications
Queued(a) == Len(a.events) <= MaxEvents

\* history: while a play() promise of togglePlayPause was unsettled, another
\* listener has called loadTrack; kept through the step that settles it
Raced(h, loads) ==
    IF h = "initializeMusicPlayer" THEN FALSE
    ELSE IF pending.caught = 0 THEN FALSE
    ELSE last.raced \/ (loads = 1 /\ h # "play catch")

\* what a listener did: its name, the play(), pause() and load requests it
\* made, the position it assigned, the message it logged
Ran(h, plays, pauses, loads, seek, log) ==
    [handler |-> h, plays |-> plays, pauses |-> pauses, loads |-> loads,
     seek |-> seek, log |-> log, raced |-> Raced(h, loads)]

----------------------------------------------------------------------------
(* loadTrack and the index arithmetic *)

\* mutant: the decrement without the wraparound
PrevIndexNoWrap(i) == i - 1

\* (currentTrackIndex - 1 + playlist.length) % playlist.length
PrevIndex(i) == (i - 1 + N) % N

\* mutant: the increment without the wraparound
NextIndexNoWrap(i) == i + 1

\* (currentTrackIndex + 1) % playlist.length
NextIndex(i) == (i + 1) % N

\* playlist[index] is a track; otherwise it is undefined, and loadTrack
\* throws a TypeError on track.src before it has written anything, which
\* ends the listener that called it
HasTrack(index) == index \in 0 .. (N - 1)

\* loadTrack(index): what it makes of the element
loadTrackAudio(a, index) ==
    IF HasTrack(index) THEN AudioLoad(a, Track(index).src) ELSE a

\* mutant: loadTrack without the reset of the progress and the elapsed time
loadTrackDomKeepsProgress(d, index) ==
    IF HasTrack(index)
    THEN [d EXCEPT !.songTitle = Track(index).title,
                   !.songArtist = Track(index).artist,
                   !.timeTotal = formatTime(QInt(Track(index).duration))]
    ELSE d

\* loadTrack(index): what it makes of the DOM
loadTrackDom(d, index) ==
    IF HasTrack(index)
    THEN [d EXCEPT !.songTitle = Track(index).title,
                   !.songArtist = Track(index).artist,
                   !.timeCurrent = "0:00",
                   !.timeTotal = formatTime(QInt(Track(index).duration)),
                   !.progressFill = QInt(0),
                   !.progressHandle = QInt(0)]
    ELSE d

----------------------------------------------------------------------------
(* The state after initializeMusicPlayer() *)

\* the element and the nodes as the page's markup gives them to the script
FreshAudio ==
    [src |-> "", paused |-> TRUE, volume |-> QInt(1), currentTime |-> QInt(0),
     duration |-> 0, events |-> <<>>]

FreshDom(slider) ==
    [songTitle |-> "", songArtist |-> "", timeCurrent |-> "", timeTotal |-> "",
     progressFill |-> QInt(0), progressHandle |-> QInt(0),
     volumeIcon |-> "", volumeRange |-> slider,
     playPauseBtn |-> "", songCover |-> ""]

\* initializeMusicPlayer(), the slider's markup value being one of sliders
InitOf(sliders) ==
    /\ currentTrackIndex = 0
    /\ isPlaying = FALSE
    /\ isDragging = FALSE
    /\ audio = [loadTrackAudio(FreshAudio, 0) EXCEPT !.volume = Q(7, 10)]
    /\ \E slider \in sliders :
          dom = [loadTrackDom(FreshDom(slider), 0) EXCEPT
                    !.volumeIcon = updateVolumeIcon(Q(7, 10))]
    /\ pending = [caught |-> 0, bare |-> 0]
    /\ last = Ran("initializeMusicPlayer", 0, 0, 1, <<>>, "")

Init == InitOf(InitialSliderValues)

\* the listeners of Spec neither read nor write the slider: one of its
\* initial values stands for all of them there
InitTransport == InitOf({CHOOSE slider \in InitialSliderValues : TRUE})

----------------------------------------------------------------------------
(* Transport listeners *)

\* togglePlayPause(), reached from listener h
togglePlayPause(h, allowed) ==
    /\ IF isPlaying
       THEN /\ audio' = AudioPause(audio)
            /\ pending' = pending
            /\ last' = Ran(h, 0, 1, 0, <<>>, "")
       ELSE /\ Room
            /\ audio' = AudioPlay(audio, allowed)
            /\ pending' = [pending EXCEPT !.caught = @ + 1]
            /\ last' = Ran(h, 1, 0, 0, <<>>, "")
    /\ Queued(audio')
    /\ UNCHANGED <<currentTrackIndex, isPlaying, isDragging, dom>>

\* mutant: a skip abandons the play() promises of togglePlayPause
prevBtnClickCancels(h, allowed) ==
    LET i == PrevIndex(currentTrackIndex)
        play == isPlaying /\ HasTrack(i)
    IN
    /\ play => Room
    /\ currentTrackIndex' = i
    /\ dom' = loadTrackDom(dom, i)
    /\ audio' = IF play
                THEN AudioPlay(loadTrackAudio(audio, i), allowed)
                ELSE loadTrackAudio(audio, i)
    /\ pending' = [caught |-> 0,
                   bare |-> IF play THEN pending.bare + 1 ELSE pending.bare]
    /\ last' = Ran(h, IF play THEN 1 ELSE 0, 0, 1, <<>>, "")
    /\ UNCHANGED <<isPlaying, isDragging>>

\* the prevBtn click listener, reached from listener h
prevBtnClick(h, allowed) ==
    LET i == PrevIndex(currentTrackIndex)
        play == isPlaying /\ HasTrack(i)
    IN
    /\ play => Room
    /\ currentTrackIndex' = i
    /\ dom' = loadTrackDom(dom, i)
    /\ audio' = IF play
                THEN AudioPlay(loadTrackAudio(audio, i), allowed)
                ELSE loadTrackAudio(audio, i)
    /\ pending' = IF play THEN [pending EXCEPT !.bare = @ + 1] ELSE pending
    /\ last' = Ran(h, IF play THEN 1 ELSE 0, 0, 1, <<>>, "")
    /\ UNCHANGED <<isPlaying, isDragging>>

\* mutant: next always resumes, as the ended listener does
nextBtnClickAlwaysPlays(h, allowed) ==
    LET i == NextIndex(currentTrackIndex)
        play == HasTrack(i)
    IN
    /\ play => Room
    /\ currentTrackIndex' = i
    /\ dom' = loadTrackDom(dom, i)
    /\ audio' = IF play
                THEN AudioPlay(loadTrackAudio(audio, i), allowed)
                ELSE loadTrackAudio(audio, i)
    /\ pending' = IF play THEN [pending EXCEPT !.bare = @ + 1] ELSE pending
    /\ last' = Ran(h, IF play THEN 1 ELSE 0, 0, 1, <<>>, "")
    /\ UNCHANGED <<isPlaying, isDragging>>

\* the nextBtn click listener, reached from listener h
nextBtnClick(h, allowed) ==
    LET i == NextIndex(currentTrackIndex)
        play == isPlaying /\ HasTrack(i)
    IN
    /\ play => Room
    /\ currentTrackIndex' = i
    /\ dom' = loadTrackDom(dom, i)
    /\ audio' = IF play
                THEN AudioPlay(loadTrackAudio(audio, i), allowed)
                ELSE loadTrackAudio(audio, i)
    /\ pending' = IF play THEN [pending EXCEPT !.bare = @ + 1] ELSE pending
    /\ last' = Ran(h, IF play THEN 1 ELSE 0, 0, 1, <<>>, "")
    /\ UNCHANGED <<isPlaying, isDragging>>

PlayPauseClick == \E allowed \in BOOLEAN : togglePlayPause("playPauseBtn click", allowed)

PrevClick == \E allowed \in BOOLEAN : prevBtnClick("prevBtn click", allowed)

NextClick == \E allowed \in BOOLEAN : nextBtnClick("nextBtn click", allowed)

----------------------------------------------------------------------------------------------------------------------------------------
(* Volume listeners *)

\* mutant: the slider's value taken as the volume, without the division
InputVolumeRaw(value) == QInt(value)

\* e.target.value / 100
InputVolume(value) == Q(value, 100)

\* the volumeRange input listener, the slider holding value
volumeRangeInput(value) ==
    LET volume == InputVolume(value) IN
    /\ audio' = [audio EXCEPT !.volume = volume]
    /\ dom' = [dom EXCEPT !.volumeRange = value,
                          !.volumeIcon = updateVolumeIcon(volume)]

\* the user moves the slider towards v, which fires input
VolumeInput ==
    \E v \in SliderInputs :
        /\ volumeRangeInput(RangeValue(v))
        /\ last' = Ran("volumeRange input", 0, 0, 0, <<>>, "")
        /\ UNCHANGED <<currentTrackIndex, isPlaying, isDragging, pending>>

\* mutant: unmuting goes to full volume
volumeBtnVolumeFull(volume) == IF QLess(QInt(0), volume) THEN QInt(0) ELSE QInt(1)

\* the volumeBtn click listener: what it makes of the element's volume
volumeBtnVolume(volume) == IF QLess(QInt(0), volume) THEN QInt(0) ELSE Q(7, 10)

\* mutant: unmuting moves the slider to its maximum
volumeBtnRangeFull(volume) == IF QLess(QInt(0), volume) THEN RangeValue(0) ELSE RangeValue(100)

\* the volumeBtn click listener: what it makes of the slider
volumeBtnRange(volume) == IF QLess(QInt(0), volume) THEN RangeValue(0) ELSE RangeValue(70)

VolumeBtnClick ==
    LET volume == volumeBtnVolume(audio.volume) IN
    /\ audio' = [audio EXCEPT !.volume = volume]
    /\ dom' = [dom EXCEPT !.volumeRange = volumeBtnRange(audio.volume),
                          !.volumeIcon = updateVolumeIcon(volume)]
    /\ last' = Ran("volumeBtn click", 0, 0, 0, <<>>, "")
    /\ UNCHANGED <<currentTrackIndex, isPlaying, isDragging, pending>>

\* mutant: a step of one point instead of ten
ArrowUpValueByOne(value) == Min(100, value + 1)

\* Math.min(100, parseInt(volumeRange.value) + 10)
ArrowUpValue(value) == Min(100, value + 10)

\* Math.max(0, parseInt(volumeRange.value) - 10)
ArrowDownValue(value) == Max(0, value - 10)

----------------------------------------------------------------------------
(* Scrub bar listeners *)

\* (e.clientX - rect.left) / rect.width
ClickPercent(clientX) == Q(clientX - BarLeft, BarWidth)

\* Math.max(0, Math.min(1, (e.clientX - rect.left) / rect.width))
MovePercent(clientX) == QMax(QInt(0), QMin(QInt(1), Q(clientX - BarLeft, BarWidth)))

\* the progressBar click listener
ProgressBarClick ==
    \E clientX \in PointerXs :
        /\ IF audio.duration = 0
           THEN /\ audio' = audio
                /\ last' = Ran("progressBar click", 0, 0, 0, <<>>, "")
           ELSE LET t == QMul(ClickPercent(clientX), QInt(audio.duration)) IN
                /\ audio' = AudioSeek(audio, t)
                /\ last' = Ran("progressBar click", 0, 0, 0, <<t>>, "")
        /\ UNCHANGED <<currentTrackIndex, isPlaying, isDragging, dom, pending>>

\* the progressHandle mousedown listener
MouseDown ==
    /\ isDragging' = TRUE
    /\ last' = Ran("progressHandle mousedown", 0, 0, 0, <<>>, "")
    /\ UNCHANGED <<currentTrackIndex, isPlaying, audio, dom, pending>>

\* mutant: the mousemove listener without the test of audio.duration
MouseMoveAnyDuration ==
    \E clientX \in PointerXs :
        /\ IF ~isDragging
           THEN /\ audio' = audio
                /\ last' = Ran("document mousemove", 0, 0, 0, <<>>, "")
           ELSE LET t == QMul(MovePercent(clientX), QInt(audio.duration)) IN
                /\ audio' = AudioSeek(audio, t)
                /\ last' = Ran("document mousemove", 0, 0, 0, <<t>>, "")
        /\ UNCHANGED <<currentTrackIndex, isPlaying, isDragging, dom, pending>>

\* the document mousemove listener
MouseMove ==
    \E clientX \in PointerXs :
        /\ IF ~isDragging \/ audio.duration = 0
           THEN /\ audio' = audio
                /\ last' = Ran("document mousemove", 0, 0, 0, <<>>, "")
           ELSE LET t == QMul(MovePercent(clientX), QInt(audio.duration)) IN
                /\ audio' = AudioSeek(audio, t)
                /\ last' = Ran("document mousemove", 0, 0, 0, <<t>>, "")
        /\ UNCHANGED <<currentTrackIndex, isPlaying, isDragging, dom, pending>>

\* the document mouseup listener
MouseUp ==
    /\ isDragging' = FALSE
    /\ last' = Ran("document mouseup", 0, 0, 0, <<>>, "")
    /\ UNCHANGED <<currentTrackIndex, isPlaying, audio, dom, pending>>

----------------------------------------------------------------------------
(* Listeners of the element's notifications *)

\* loadedmetadata: the element has learnt the duration of its source
LoadedMetadata ==
    \E d \in RealDurations :
        /\ audio.duration = 0
        /\ audio' = [audio EXCEPT !.duration = d]
        /\ dom' = updateProgress(audio', [dom EXCEPT !.timeTotal = formatTime(QInt(d))],
                                 isDragging)
        /\ last' = Ran("audio loadedmetadata", 0, 0, 0, <<>>, "")
        /\ UNCHANGED <<currentTrackIndex, isPlaying, isDragging, pending>>

\* the position the element reports with a timeupdate: playback has advanced
\* by TimeStep, or the position is as it was (after a seek, or while paused).
\* When playback reaches the end of the source the element pauses itself
\* and queues pause, then ended.
Advanced(a, advance) ==
    IF advance /\ ~a.paused /\ a.duration # 0
    THEN LET t == QMin(QInt(a.duration), QAdd(a.currentTime, QInt(TimeStep))) IN
         IF t = QInt(a.duration)
         THEN [a EXCEPT !.currentTime = t, !.paused = TRUE,
                        !.events = @ \o <<"pause", "ended">>]
         ELSE [a EXCEPT !.currentTime = t]
    ELSE a

\* timeupdate
TimeUpdate ==
    \E advance \in BOOLEAN :
        /\ audio' = Advanced(audio, advance)
        /\ Queued(audio')
        /\ dom' = updateProgress(audio', dom, isDragging)
        /\ last' = Ran("audio timeupdate", 0, 0, 0, <<>>, "")
        /\ UNCHANGED <<currentTrackIndex, isPlaying, isDragging, pending>>

\* the play listener
PlayEvent ==
    /\ audio.events # <<>>
    /\ Head(audio.events) = "play"
    /\ audio' = [audio EXCEPT !.events = Tail(@)]
    /\ isPlaying' = TRUE
    /\ dom' = [dom EXCEPT !.playPauseBtn = "fas fa-pause",
                          !.songCover = "fas fa-music playing"]
    /\ last' = Ran("audio play", 0, 0, 0, <<>>, "")
    /\ UNCHANGED <<currentTrackIndex, isDragging, pending>>

\* the pause listener
PauseEvent ==
    /\ audio.events # <<>>
    /\ Head(audio.events) = "pause"
    /\ audio' = [audio EXCEPT !.events = Tail(@)]
    /\ isPlaying' = FALSE
    /\ dom' = [dom EXCEPT !.playPauseBtn = "fas fa-play",
                          !.songCover = "fas fa-music"]
    /\ last' = Ran("audio pause", 0, 0, 0, <<>>, "")
    /\ UNCHANGED <<currentTrackIndex, isDragging, pending>>

\* mutant: the ended listener resumes only when the flag says playing
audioEndedIfPlaying(allowed) ==
    LET i == NextIndex(currentTrackIndex)
        play == isPlaying /\ HasTrack(i)
    IN
    /\ play => Room
    /\ currentTrackIndex' = i
    /\ dom' = loadTrackDom(dom, i)
    /\ audio' = IF play
                THEN AudioPlay(loadTrackAudio(audio, i), allowed)
                ELSE loadTrackAudio(audio, i)
    /\ pending' = IF play THEN [pending EXCEPT !.bare = @ + 1] ELSE pending
    /\ last' = Ran("audio ended", IF play THEN 1 ELSE 0, 0, 1, <<>>, "")
    /\ UNCHANGED <<isPlaying, isDragging>>

\* the ended listener
audioEnded(allowed) ==
    LET i == NextIndex(currentTrackIndex)
        play == HasTrack(i)
    IN
    /\ play => Room
    /\ currentTrackIndex' = i
    /\ dom' = loadTrackDom(dom, i)
    /\ audio' = IF play
                THEN AudioPlay(loadTrackAudio(audio, i), allowed)
                ELSE loadTrackAudio(audio, i)
    /\ pending' = IF play THEN [pending EXCEPT !.bare = @ + 1] ELSE pending
    /\ last' = Ran("audio ended", IF play THEN 1 ELSE 0, 0, 1, <<>>, "")
    /\ UNCHANGED <<isPlaying, isDragging>>

EndedEvent ==
    \E allowed \in BOOLEAN :
        /\ audio.events # <<>>
        /\ Head(audio.events) = "ended"
        /\ audioEnded(allowed)

\* mutant: the error listener advances the index without loading the track
audioErrorNoLoad ==
    /\ currentTrackIndex' = NextIndex(currentTrackIndex)
    /\ last' = Ran("audio error", 0, 0, 0, <<>>, "Audio error, skipping to next track")
    /\ UNCHANGED <<isPlaying, isDragging, audio, dom, pending>>

\* mutant: the error listener reloads the failed track
audioErrorSameTrack ==
    LET i == currentTrackIndex IN
    /\ currentTrackIndex' = i
    /\ audio' = loadTrackAudio(audio, i)
    /\ dom' = loadTrackDom(dom, i)
    /\ last' = Ran("audio error", 0, 0, 1, <<>>, "Audio error, skipping to next track")
    /\ UNCHANGED <<isPlaying, isDragging, pending>>

\* the error listener
audioError ==
    LET i == NextIndex(currentTrackIndex) IN
    /\ currentTrackIndex' = i
    /\ audio' = loadTrackAudio(audio, i)
    /\ dom' = loadTrackDom(dom, i)
    /\ last' = Ran("audio error", 0, 0, 1, <<>>, "Audio error, skipping to next track")
    /\ UNCHANGED <<isPlaying, isDragging, pending>>

ErrorEvent == audioError

----------------------------------------------------------------------------
(* Settlement of play() promises *)

\* mutant: the .catch callback reloads the failed track instead of the next
playCatchSameTrack ==
    LET i == currentTrackIndex IN
    /\ currentTrackIndex' = i
    /\ audio' = loadTrackAudio(audio, i)
    /\ dom' = loadTrackDom(dom, i)
    /\ last' = Ran("play catch", 0, 0, 1, <<>>, "Playback failed:")
    /\ UNCHANGED <<isPlaying, isDragging>>

\* the .catch callback of togglePlayPause
playCatch ==
    LET i == NextIndex(currentTrackIndex) IN
    /\ currentTrackIndex' = i
    /\ audio' = loadTrackAudio(audio, i)
    /\ dom' = loadTrackDom(dom, i)
    /\ last' = Ran("play catch", 0, 0, 1, <<>>, "Playback failed:")
    /\ UNCHANGED <<isPlaying, isDragging>>

\* a play() promise of togglePlayPause is rejected
PlayRejectedCaught ==
    /\ pending.caught > 0
    /\ pending' = [pending EXCEPT !.caught = @ - 1]
    /\ playCatch

\* a play() promise of the prev, next or ended listener is rejected: no
\* callback is attached to it, the page gets an unhandledrejection
PlayRejectedBare ==
    /\ pending.bare > 0
    /\ pending' = [pending EXCEPT !.bare = @ - 1]
    /\ last' = Ran("unhandledrejection", 0, 0, 0, <<>>, "")
    /\ UNCHANGED <<currentTrackIndex, isPlaying, isDragging, audio, dom>>

\* a play() promise is fulfilled: no callback is attached to fulfilment
PlayResolved ==
    \E kind \in {"caught", "bare"} :
        /\ pending[kind] > 0
        /\ pending' = [pending EXCEPT ![kind] = @ - 1]
        /\ last' = Ran("play fulfilled", 0, 0, 0, <<>>, "")
        /\ UNCHANGED <<currentTrackIndex, isPlaying, isDragging, audio, dom>>

----------------------------------------------------------------------------
(* Keyboard shortcuts *)

KeyCodes == {"Space", "ArrowLeft", "ArrowRight", "ArrowUp", "ArrowDown", "KeyA"}

KeyLabel(code, inText) ==
    "keydown " \o code \o (IF inText THEN " in text input" ELSE "")

\* mutant: the keydown listener without the test of e.target
keydownAnywhere(code, inText, allowed) ==
    IF code = "KeyA"
    THEN /\ last' = Ran(KeyLabel(code, inText), 0, 0, 0, <<>>, "")
         /\ UNCHANGED <<currentTrackIndex, isPlaying, isDragging, audio, dom, pending>>
    ELSE CASE code = "Space" -> togglePlayPause(KeyLabel(code, inText), allowed)
           [] code = "ArrowLeft" -> prevBtnClick(KeyLabel(code, inText), allowed)
           [] code = "ArrowRight" -> nextBtnClick(KeyLabel(code, inText), allowed)
           [] code = "ArrowUp" ->
                /\ volumeRangeInput(RangeValue(ArrowUpValue(dom.volumeRange)))
                /\ last' = Ran(KeyLabel(code, inText), 0, 0, 0, <<>>, "")
                /\ UNCHANGED <<currentTrackIndex, isPlaying, isDragging, pending>>
           [] code = "ArrowDown" ->
                /\ volumeRangeInput(RangeValue(ArrowDownValue(dom.volumeRange)))
                /\ last' = Ran(KeyLabel(code, inText), 0, 0, 0, <<>>, "")
                /\ UNCHANGED <<currentTrackIndex, isPlaying, isDragging, pending>>

\* the document keydown listener; inText: e.target.matches('input, textarea')
keydown(code, inText, allowed) ==
    IF inText \/ code = "KeyA"
    THEN /\ last' = Ran(KeyLabel(code, inText), 0, 0, 0, <<>>, "")
         /\ UNCHANGED <<currentTrackIndex, isPlaying, isDragging, audio, dom, pending>>
    ELSE CASE code = "Space" -> togglePlayPause(KeyLabel(code, inText), allowed)
           [] code = "ArrowLeft" -> prevBtnClick(KeyLabel(code, inText), allowed)
           [] code = "ArrowRight" -> nextBtnClick(KeyLabel(code, inText), allowed)
           [] code = "ArrowUp" ->
                /\ volumeRangeInput(RangeValue(ArrowUpValue(dom.volumeRange)))
                /\ last' = Ran(KeyLabel(code, inText), 0, 0, 0, <<>>, "")
                /\ UNCHANGED <<currentTrackIndex, isPlaying, isDragging, pending>>
           [] code = "ArrowDown" ->
                /\ volumeRangeInput(RangeValue(ArrowDownValue(dom.volumeRange)))
                /\ last' = Ran(KeyLabel(code, inText), 0, 0, 0, <<>>, "")
                /\ UNCHANGED <<currentTrackIndex, isPlaying, isDragging, pending>>

\* a key is pressed: one of codes, on one of targets (TRUE: a text input)
KeyDownOf(codes, targets) ==
    \E code \in codes, inText \in targets, allowed \in BOOLEAN :
        keydown(code, inText, allowed)

TransportKeys == {"Space", "ArrowLeft", "ArrowRight"}

\* a transport shortcut, pressed outside a text input
KeyDown == KeyDownOf(TransportKeys, {FALSE})

\* any key, pressed inside or outside a text input
AnyKeyDown == KeyDownOf(KeyCodes, BOOLEAN)

----------------------------------------------------------------------------
(* The player.  The volume listeners read and write only audio.volume, the  *)
(* slider and the volume icon, and no other listener reads or writes those: *)
(* Spec is the player without its volume controls, SpecVolume the volume    *)
(* controls together with the whole keyboard listener.                      *)

Next ==
    \/ PlayPauseClick
    \/ PrevClick
    \/ NextClick
    \/ ProgressBarClick
    \/ MouseDown
    \/ MouseMove
    \/ MouseUp
    \/ LoadedMetadata
    \/ TimeUpdate
    \/ PlayEvent
    \/ PauseEvent
    \/ EndedEvent
    \/ ErrorEvent
    \/ PlayRejectedCaught
    \/ PlayRejectedBare
    \/ PlayResolved
    \/ KeyDown

Spec == InitTransport /\ [][Next]_vars

NextVolume ==
    \/ VolumeInput
    \/ VolumeBtnClick
    \/ AnyKeyDown

SpecVolume == Init /\ [][NextVolume]_vars

----------------------------------------------------------------------------
(* A playlist of which no source can be played: the element never learns a *)
(* duration, never reaches the end of a source and never fulfils a play()  *)
(* promise, and it answers every load with an error notification.  The     *)
(* user may do anything but go back.                                       *)

ForwardKeys == {"Space", "ArrowRight"}

ForwardKeyDown == KeyDownOf(ForwardKeys, {FALSE})

NextBroken ==
    \/ ErrorEvent
    \/ PlayPauseClick
    \/ NextClick
    \/ ProgressBarClick
    \/ MouseDown
    \/ MouseMove
    \/ MouseUp
    \/ TimeUpdate
    \/ PlayEvent
    \/ PauseEvent
    \/ PlayRejectedCaught
    \/ PlayRejectedBare
    \/ ForwardKeyDown

\* every load is followed by the error notification
SpecBroken == InitTransport /\ [][NextBroken]_vars /\ WF_vars(ErrorEvent)

----------------------------------------------------------------------------
(* formatTime on its own: the argument is given as the element's position  *)
(* and the result is written to the elapsed-time node, as updateProgress   *)
(* does with it.                                                           *)

\* arguments up to MaxQuarters quarters of a second
MaxQuarters == 300

\* the arguments: quarters of a second, whole minutes and their neighbours,
\* an hour and its neighbours, and a value that is not a number
FormatSeconds ==
    {Q(n, 4) : n \in 0 .. MaxQuarters}
        \cup {QInt(599), QInt(600), Q(1201, 2), QInt(3599), QInt(3600), Q(36061, 10)}
        \cup {NotANumber}

InitFormat ==
    /\ currentTrackIndex = 0
    /\ isPlaying = FALSE
    /\ isDragging = FALSE
    /\ \E seconds \in FormatSeconds :
          audio = [loadTrackAudio(FreshAudio, 0) EXCEPT
                      !.volume = Q(7, 10), !.currentTime = seconds]
    /\ \E slider \in InitialSliderValues :
          dom = [loadTrackDom(FreshDom(slider), 0) EXCEPT
                    !.volumeIcon = updateVolumeIcon(Q(7, 10))]
    /\ pending = [caught |-> 0, bare |-> 0]
    /\ last = Ran("initializeMusicPlayer", 0, 0, 1, <<>>, "")

\* timeCurrent.textContent = formatTime(audio.currentTime)
FormatCurrentTime ==
    /\ last.handler = "initializeMusicPlayer"
    /\ dom' = [dom EXCEPT !.timeCurrent = formatTime(audio.currentTime)]
    /\ last' = Ran("formatTime", 0, 0, 0, <<>>, "")
    /\ UNCHANGED <<currentTrackIndex, isPlaying, isDragging, audio, pending>>

NextFormat == FormatCurrentTime

SpecFormat == InitFormat /\ [][NextFormat]_vars

----------------------------------------------------------------------------
(* Properties of the player *)

\* the listeners that skip to the previous / the next track
PrevLabels == {"prevBtn click", "keydown ArrowLeft"}
NextLabels == {"nextBtn click", "keydown ArrowRight"}
ToggleLabels == {"playPauseBtn click", "keydown Space"}

\* C1: in every reachable state currentTrackIndex is an integer with
\* 0 <= currentTrackIndex < playlist.length, whatever sequence of previous,
\* next, togglePlayPause, play rejections, natural ends and errors led there.
C1_IndexInRange ==
    /\ currentTrackIndex \in Int
    /\ 0 <= currentTrackIndex
    /\ currentTrackIndex < N

\* the natural end of the last track has wrapped the index around to 0
C1_Witness ==
    /\ last.handler = "audio ended"
    /\ currentTrackIndex = 0

\* the index after k clicks on next / on previous, starting from i
RECURSIVE NextTimes(_, _)
NextTimes(k, i) == IF k = 0 THEN i ELSE NextTimes(k - 1, NextIndex(i))

RECURSIVE PrevTimes(_, _)
PrevTimes(k, i) == IF k = 0 THEN i ELSE PrevTimes(k - 1, PrevIndex(i))

\* C2: from every index the player can be at, next() N times returns to it,
\* previous() N times returns to it, next() then previous() returns to it,
\* and no smaller number of steps than N does.
C2_Wraparound ==
    LET i == currentTrackIndex IN
    /\ NextTimes(N, i) = i
    /\ PrevTimes(N, i) = i
    /\ PrevIndex(NextIndex(i)) = i
    /\ \A k \in 1 .. (N - 1) : NextTimes(k, i) # i /\ PrevTimes(k, i) # i

\* previous() has wrapped from the first track to the last
C2_Witness ==
    /\ last.handler \in PrevLabels
    /\ currentTrackIndex = N - 1
    /\ NextIndex(currentTrackIndex) = 0

\* the track at currentTrackIndex is the one loaded into the element
Loaded(a, index) == HasTrack(index) /\ a.src = Track(index).src

\* C3 (as claimed): an error notification while track k is current loads
\* track (k+1) mod N, makes no play request, and leaves the playing flag
\* false when the listener has completed, also when it was true before.
C3_ErrorStopsPlaying ==
    [][last'.handler = "audio error" =>
          /\ currentTrackIndex' = (currentTrackIndex + 1) % N
          /\ Loaded(audio', currentTrackIndex')
          /\ last'.plays = 0
          /\ pending' = pending
          /\ isPlaying' = FALSE]_vars

\* C4: the ended listener sets the index to (k+1) mod N, loads that track
\* and makes one play request, whatever the playing flag was.
C4_EndedContinues ==
    [][last'.handler = "audio ended" =>
          /\ currentTrackIndex' = (currentTrackIndex + 1) % N
          /\ Loaded(audio', currentTrackIndex')
          /\ last'.loads = 1
          /\ last'.plays = 1
          /\ pending'.bare = pending.bare + 1
          /\ isPlaying' = isPlaying]_vars

\* the ended listener has asked for playback while the flag said not playing
C4_Witness ==
    /\ last.handler = "audio ended"
    /\ last.plays = 1
    /\ ~isPlaying
    /\ ~audio.paused

\* C5: previous() and next() load the new track and make a play request
\* exactly when the playing flag was true as the listener ran.
C5_SkipResumesIffPlaying ==
    [][last'.handler \in PrevLabels \cup NextLabels =>
          /\ Loaded(audio', currentTrackIndex')
          /\ last'.loads = 1
          /\ (isPlaying => last'.plays = 1 /\ pending'.bare = pending.bare + 1)
          /\ (~isPlaying => last'.plays = 0 /\ pending' = pending
                              /\ audio'.paused /\ audio'.events = <<>>)]_vars

\* next() has asked for playback of the new track, the flag being true
C5_Witness ==
    /\ last.handler = "nextBtn click"
    /\ last.plays = 1
    /\ isPlaying
    /\ pending.bare = 1

\* C6: togglePlayPause requests pause when the flag is true and play
\* otherwise; the rejection of one of its play requests advances the index
\* by one step mod N, loads that track and makes no play request.
C6_ToggleAndSingleSkip ==
    [][/\ last'.handler \in ToggleLabels =>
             /\ (isPlaying => last'.pauses = 1 /\ last'.plays = 0 /\ pending' = pending)
             /\ (~isPlaying => last'.plays = 1 /\ last'.pauses = 0
                                 /\ pending'.caught = pending.caught + 1)
             /\ last'.loads = 0
             /\ currentTrackIndex' = currentTrackIndex
       /\ last'.handler = "play catch" =>
             /\ currentTrackIndex' = (currentTrackIndex + 1) % N
             /\ Loaded(audio', currentTrackIndex')
             /\ last'.loads = 1
             /\ last'.plays = 0
             /\ pending'.caught = pending.caught - 1
             /\ pending'.bare = pending.bare
             /\ audio'.paused /\ audio'.events = <<>>]_vars

\* a rejected play request of togglePlayPause has skipped from the last
\* track to the first and left the element paused
C6_Witness ==
    /\ last.handler = "play catch"
    /\ last.log = "Playback failed:"
    /\ currentTrackIndex = 0
    /\ audio.paused

\* C7 (as claimed): every rejection of a play request, whichever listener
\* made the request, is caught: the .catch callback runs, logs, and skips to
\* the next track; none reaches the page unhandled.
C7_EveryRejectionCaught ==
    [][last'.handler \in {"play catch", "unhandledrejection"} =>
          /\ last'.handler = "play catch"
          /\ last'.log = "Playback failed:"
          /\ currentTrackIndex' = (currentTrackIndex + 1) % N
          /\ Loaded(audio', currentTrackIndex')]_vars

\* C8: while isDragging, timeupdate and loadedmetadata leave the displayed
\* progress and elapsed time alone; isDragging changes only on mousedown
\* (to true) and mouseup (to false); when not dragging, a timeupdate with a
\* known duration shows currentTime / duration and the elapsed time.
C8_DragSuppression ==
    [][/\ (isDragging /\ last'.handler \in {"audio timeupdate", "audio loadedmetadata"}) =>
             /\ dom'.progressFill = dom.progressFill
             /\ dom'.progressHandle = dom.progressHandle
             /\ dom'.timeCurrent = dom.timeCurrent
       /\ (isDragging' # isDragging) =>
             \/ isDragging' /\ last'.handler = "progressHandle mousedown"
             \/ ~isDragging' /\ last'.handler = "document mouseup"
       /\ (~isDragging /\ last'.handler = "audio timeupdate" /\ audio'.duration # 0) =>
             /\ QMul(dom'.progressFill, QInt(audio'.duration))
                    = QMul(QInt(100), audio'.currentTime)
             /\ dom'.progressHandle = dom'.progressFill
             /\ dom'.timeCurrent = formatTime(audio'.currentTime)]_vars

\* a timeupdate has arrived during a drag and the display still shows the
\* start of the track although the position is further on
C8_Witness ==
    /\ isDragging
    /\ last.handler = "audio timeupdate"
    /\ audio.duration # 0
    /\ audio.currentTime # QInt(0)
    /\ dom.progressFill = QInt(0)
    /\ dom.timeCurrent = "0:00"

\* C9: the volume stored in the element lies in [0, 1] after any sequence
\* of slider inputs, mute toggles and ArrowUp / ArrowDown keys.
C9_VolumeInUnitInterval ==
    /\ QLeq(QInt(0), audio.volume)
    /\ QLeq(audio.volume, QInt(1))

\* a slider input beyond the top of the range has left the volume at 1
C9_Witness ==
    /\ last.handler = "volumeRange input"
    /\ dom.volumeRange = 100
    /\ audio.volume = QInt(1)

\* C10: the volume icon is one of muted, low, high and matches the
\* element's volume v: muted iff v = 0, low iff 0 < v < 0.5, high iff v >= 0.5.
C10_IconMatchesVolume ==
    LET v == audio.volume
        icon == dom.volumeIcon
    IN
    /\ icon \in {"fas fa-volume-mute", "fas fa-volume-down", "fas fa-volume-up"}
    /\ icon = "fas fa-volume-mute" <=> v = QInt(0)
    /\ icon = "fas fa-volume-down" <=> (QLess(QInt(0), v) /\ QLess(v, Q(1, 2)))
    /\ icon = "fas fa-volume-up" <=> QLeq(Q(1, 2), v)

\* a slider input has put the volume at exactly one half: the icon is high
C10_Witness ==
    /\ last.handler = "volumeRange input"
    /\ audio.volume = Q(1, 2)
    /\ dom.volumeIcon = "fas fa-volume-up"

\* C11: the mute button sets a volume above 0 to 0 and a volume of 0 to
\* exactly 0.7, whatever the volume was before muting; two clicks in a row,
\* the first from a volume above 0, end at 0.7.
C11_MuteToggle ==
    [][last'.handler = "volumeBtn click" =>
          /\ QLess(QInt(0), audio.volume) => audio'.volume = QInt(0)
          /\ audio.volume = QInt(0) => audio'.volume = Q(7, 10)
          /\ (last.handler = "volumeBtn click" /\ audio.volume = QInt(0))
                => audio'.volume = Q(7, 10)]_vars

\* the button has unmuted to 0.7 and a second click has not yet followed
C11_Witness ==
    /\ last.handler = "volumeBtn click"
    /\ audio.volume = Q(7, 10)
    /\ dom.volumeRange = 70
    /\ dom.volumeIcon = "fas fa-volume-up"

\* the labels of key events whose target is a text input
TextKeyLabels == {KeyLabel(code, TRUE) : code \in KeyCodes}

\* C12: a key event whose target is a text input changes neither the index,
\* the playing flag, the drag flag, the element (volume included), the DOM
\* nor the outstanding play requests, and makes no request, for every key.
C12_KeyboardGuard ==
    [][last'.handler \in TextKeyLabels =>
          /\ UNCHANGED <<currentTrackIndex, isPlaying, isDragging, audio, dom, pending>>
          /\ last'.plays = 0
          /\ last'.pauses = 0
          /\ last'.loads = 0
          /\ last'.seek = <<>>]_vars

\* ArrowRight typed into a text input, after an earlier skip to track 1 and
\* an earlier change of the volume: both are as they were
C12_Witness ==
    /\ last.handler = "keydown ArrowRight in text input"
    /\ currentTrackIndex = 1
    /\ audio.volume = Q(4, 5)

\* the element's volume in percent
VolumePercent(a) == QMul(a.volume, QInt(100))

C14_SeekWithinDuration ==
    last.seek # <<>> =>
        /\ QLeq(QInt(0), last.seek[1])
        /\ QLeq(last.seek[1], QInt(audio.duration))

\* the handlers that do nothing while the duration is unknown
ScrubLabels == {"progressBar click", "document mousemove", "audio timeupdate"}

\* C15: while the element's duration is unknown a click on the bar, a drag
\* move and a timeupdate assign no position and leave the element's position
\* and the displayed progress and elapsed time as they were.
C15_UnknownDurationNoOp ==
    [][(audio.duration = 0 /\ last'.handler \in ScrubLabels) =>
          /\ last'.seek = <<>>
          /\ audio'.currentTime = audio.currentTime
          /\ audio'.duration = 0
          /\ dom' = dom]_vars

\* a drag move during a drag, before the metadata of track 1 has arrived
C15_Witness ==
    /\ last.handler = "document mousemove"
    /\ isDragging
    /\ audio.duration = 0
    /\ currentTrackIndex = 1
    /\ dom.timeCurrent = "0:00"
    /\ dom.progressFill = QInt(0)

\* the decimal digits
Digits == <<"0", "1", "2", "3", "4", "5", "6", "7", "8", "9">>

\* k < 100 written with exactly two digits
TwoDigits(k) == Digits[(k \div 10) + 1] \o Digits[(k % 10) + 1]

\* the whole minutes in s seconds: the m with 60 m <= s < 60 (m + 1)
WholeMinutes(s) ==
    CHOOSE m \in 0 .. s[1] :
        QLeq(QInt(60 * m), s) /\ QLess(s, QInt(60 * (m + 1)))

\* the whole seconds left over: the k < 60 with 60 m + k <= s < 60 m + k + 1
WholeSeconds(s) ==
    CHOOSE k \in 0 .. 59 :
        /\ QLeq(QInt(60 * WholeMinutes(s) + k), s)
        /\ QLess(s, QInt(60 * WholeMinutes(s) + k + 1))

\* C16: for every non-negative number of seconds formatTime gives the whole
\* minutes, a colon and the whole seconds left over written with two digits,
\* fractions of a second being dropped, and "0:00" for 0 and for a value
\* that is not a number.
C16_FormatTime ==
    last.handler = "formatTime" =>
        dom.timeCurrent =
            IF audio.currentTime = NotANumber \/ audio.currentTime = QInt(0)
            THEN "0:00"
            ELSE ToString(WholeMinutes(audio.currentTime)) \o ":"
                    \o TwoDigits(WholeSeconds(audio.currentTime))

\* 65.75 seconds are shown as 1:05: truncated and padded
C16_Witness ==
    /\ last.handler = "formatTime"
    /\ audio.currentTime = Q(263, 4)
    /\ dom.timeCurrent = "1:05"

\* the fallback durations of the five tracks, as they are displayed
FallbackTotals == <<"3:00", "2:28", "3:20", "2:45", "3:10">>

\* the handlers that write the index and call loadTrack, and nothing else
LoadOnlyLabels == {"audio error", "play catch"}

\* C17: loadTrack gives the element the track's source and the display the
\* track's title and artist, elapsed 0:00, the fallback total and progress 0;
\* it asks the element neither to play nor to pause and leaves the playing
\* flag, the volume, the drag flag and the other nodes as they were: every
\* step that calls loadTrack shows it, and the steps that do nothing but set
\* the index and call loadTrack make no play request.
C17_LoadTrackFrame ==
    [][/\ last'.loads = 1 =>
            /\ audio'.src = Track(currentTrackIndex').src
            /\ dom'.songTitle = Track(currentTrackIndex').title
            /\ dom'.songArtist = Track(currentTrackIndex').artist
            /\ dom'.timeCurrent = "0:00"
            /\ dom'.timeTotal = FallbackTotals[currentTrackIndex' + 1]
            /\ dom'.progressFill = QInt(0)
            /\ dom'.progressHandle = QInt(0)
            /\ dom'.volumeIcon = dom.volumeIcon
            /\ dom'.volumeRange = dom.volumeRange
            /\ dom'.playPauseBtn = dom.playPauseBtn
            /\ dom'.songCover = dom.songCover
            /\ audio'.volume = audio.volume
            /\ isPlaying' = isPlaying
            /\ isDragging' = isDragging
            /\ last'.pauses = 0
       /\ last'.handler \in LoadOnlyLabels => (last'.loads = 1 /\ last'.plays = 0)]_vars

\* track 1 loaded by the error listener during playback and during a drag:
\* both flags are still set
C17_Witness ==
    /\ last.handler = "audio error"
    /\ last.loads = 1
    /\ isPlaying
    /\ isDragging
    /\ currentTrackIndex = 1
    /\ dom.timeTotal = "2:28"
    /\ audio.volume = Q(7, 10)

\* C18: a skip does not cancel the rejection of an earlier play request of
\* togglePlayPause: the skip leaves the promise unsettled, and the handler of
\* its rejection advances one step from the index current when it runs and
\* loads that track, the index staying in range.
C18_RejectionAfterSkip ==
    [][/\ last'.handler \in (PrevLabels \cup NextLabels) =>
             pending'.caught = pending.caught
       /\ last'.handler = "play catch" =>
             /\ pending.caught > 0
             /\ currentTrackIndex' = (currentTrackIndex + 1) % N
             /\ currentTrackIndex' \in 0 .. (N - 1)
             /\ audio'.src = Track(currentTrackIndex').src
             /\ dom'.songTitle = Track(currentTrackIndex').title]_vars

\* play was requested on track 0, previous() moved to track 4 before the
\* rejection, and the rejection handler has advanced from 4 to 0, not to 1
C18_Witness ==
    /\ last.handler = "play catch"
    /\ last.raced
    /\ currentTrackIndex = 0
    /\ dom.songTitle = "Chill Lofi Beat"
    /\ pending.caught = 0

C20_LoadedIsCurrent ==
    /\ HasTrack(currentTrackIndex)
    /\ audio.src = Track(currentTrackIndex).src
    /\ dom.songTitle = Track(currentTrackIndex).title
    /\ dom.songArtist = Track(currentTrackIndex).artist

\* track 2 has played to its end and the ended listener has moved to track 3
C20_Witness ==
    /\ last.handler = "audio ended"
    /\ currentTrackIndex = 3
    /\ audio.src = "https://www.bensound.com/bensound-music/bensound-energy.mp3"
    /\ dom.songTitle = "Electronic Vibes"
    /\ dom.songArtist = "Synthwave"

====
